---- MODULE Spec2Model ----
(***************************************************************************)
(* NoteStorage (notes_backend/src/api/models.py): a store of notes with    *)
(* an in-memory dict backend and an SQLite backend, every public method    *)
(* running its body under one RLock.  Threads call the five public         *)
(* methods concurrently and read a shared non-decreasing wall clock.       *)
(***************************************************************************)
EXTENDS Integers, Sequences, FiniteSets, TLC

\* ------------------------------------------------------------ bounds
\* Calls made in one run, and the largest id a caller asks for.
MaxCalls == 3
MaxNoteId == 2

Threads == {"t1", "t2"}
NoThread == "none"
NoteIds == 1..MaxNoteId
Drafts == {[title |-> "A", content |-> "x"], [title |-> "B", content |-> ""]}
DbPaths == {"None", "", "notes.db"}

\* db_path, lock, notes, next_id: the fields of a NoteStorage; table: the
\* notes table of the database file; clock: the latest reading of the wall
\* clock; pc, frame: where each thread is and the locals of its call;
\* ret: the last call that returned.  History: addedIds, the ids add_note
\* has returned; deletedIds, the ids delete_note has returned True for;
\* live, id -> latest draft of the notes added and not deleted since, as
\* the callers saw them returned; calls, the number of calls made.
\* conns: the database connections that are open; ret_db: the result of
\* the SQLite-backed store where two stores are run side by side.
VARIABLES db_path, lock, notes, next_id, table, clock, pc, frame, ret,
          addedIds, deletedIds, live, calls, conns, ret_db

vars == <<db_path, lock, notes, next_id, table, clock, pc, frame, ret,
          addedIds, deletedIds, live, calls, conns, ret_db>>

\* ------------------------------------------------------------ datetime
\* A naive datetime: whole seconds and the microsecond field.
Before(a, b) ==
    \/ a.second < b.second
    \/ a.second = b.second /\ a.microsecond < b.microsecond

AtOrBefore(a, b) == a = b \/ Before(a, b)

\* The instants the clock can show: two seconds, each with a zero and a
\* nonzero microsecond field.
Times == [second : {0, 1}, microsecond : {0, 1}]

\* datetime.utcnow(): the wall clock never goes back, so a reading is at or
\* after the latest reading any thread has taken (clock).
utcnow == {now \in Times : AtOrBefore(clock, now)}

\* isoformat cut at whole seconds, as isoformat(timespec="seconds") is.
isoformatSeconds(dt) == <<dt.second>>

\* datetime.isoformat(): "...:SS" when microsecond is 0, "...:SS.ffffff"
\* otherwise; the text is a sequence of its numeric fields.
isoformat(dt) ==
    IF dt.microsecond = 0 THEN <<dt.second>> ELSE <<dt.second, dt.microsecond>>

\* datetime.fromisoformat(): a missing fraction reads as microsecond 0.
fromisoformat(s) ==
    IF Len(s) = 1 THEN [second |-> s[1], microsecond |-> 0]
                  ELSE [second |-> s[1], microsecond |-> s[2]]

\* ------------------------------------------------------------ values
Note(id, title, content, created_at, updated_at) ==
    [id |-> id, title |-> title, content |-> content,
     created_at |-> created_at, updated_at |-> updated_at]

None == [kind |-> "None"]
SomeNote(n) == [kind |-> "Note", note |-> n]
NoteList(s) == [kind |-> "List", notes |-> s]
Bool(b) == [kind |-> "Bool", value |-> b]

\* `if self.db_path:` is false for None and for the empty string.
UsesDb == db_path \notin {"None", ""}

\* ------------------------------------------------------------ dict
\* self._notes: a dict, kept as its items in insertion order.
DictKeys(d) == {d[i].key : i \in DOMAIN d}

DictHas(d, k) == k \in DictKeys(d)

DictIndex(d, k) == CHOOSE i \in DOMAIN d : d[i].key = k

DictGet(d, k) == IF DictHas(d, k) THEN SomeNote(d[DictIndex(d, k)].value) ELSE None

\* A dict that puts a new key first.
DictSetFirst(d, k, v) ==
    IF DictHas(d, k)
    THEN [d EXCEPT ![DictIndex(d, k)] = [key |-> k, value |-> v]]
    ELSE <<[key |-> k, value |-> v]>> \o d

\* d[k] = v: an existing key keeps its position, a new key goes last.
DictSet(d, k, v) ==
    IF DictHas(d, k)
    THEN [d EXCEPT ![DictIndex(d, k)] = [key |-> k, value |-> v]]
    ELSE Append(d, [key |-> k, value |-> v])

\* A pop that stamps the notes it leaves behind.
DictPopTouching(d, k) ==
    LET rest == SelectSeq(d, LAMBDA e : e.key # k)
    IN  [i \in DOMAIN rest |->
            [rest[i] EXCEPT !.value.updated_at = [second |-> 1, microsecond |-> 1]]]

DictPop(d, k) ==
    IF DictHas(d, k)
    THEN LET i == DictIndex(d, k)
         IN  SubSeq(d, 1, i - 1) \o SubSeq(d, i + 1, Len(d))
    ELSE d

DictValues(d) == [i \in DOMAIN d |-> d[i].value]

\* ------------------------------------------------------------ sqlite
\* The notes table: rows <<id, title, content, created_at, updated_at>>.
RowIds(tb) == {r[1] : r \in tb}

MaxOf(S) == CHOOSE m \in S : \A x \in S : x <= m

\* INSERT without an id into an INTEGER PRIMARY KEY column (no
\* AUTOINCREMENT): the rowid is one more than the largest rowid in the
\* table, or 1 when the table is empty.
NewRowId(tb) == IF tb = {} THEN 1 ELSE MaxOf(RowIds(tb)) + 1

SelectById(tb, id) == {r \in tb : r[1] = id}

RECURSIVE OrderById(_)
OrderById(tb) ==
    IF tb = {} THEN <<>>
    ELSE LET r == CHOOSE x \in tb : \A y \in tb : x[1] <= y[1]
         IN  <<r>> \o OrderById(tb \ {r})

_from_row(row) ==
    Note(row[1], row[2], row[3], fromisoformat(row[4]), fromisoformat(row[5]))

\* ------------------------------------------------------------ state
NoFrame == [op |-> "none", note_id |-> 0, note_create |-> [title |-> "", content |-> ""],
            now |-> [second |-> 0, microsecond |-> 0]]

\* The last call that returned: which method, on which id, with what.
NoRet == [op |-> "none", note_id |-> 0, result |-> None]

Init ==
    /\ db_path \in DbPaths
    /\ lock = [owner |-> NoThread, count |-> 0]
    /\ notes = <<>>
    /\ next_id = 1
    /\ table = {}
    /\ clock = [second |-> 0, microsecond |-> 0]
    /\ pc = [t \in Threads |-> "idle"]
    /\ frame = [t \in Threads |-> NoFrame]
    /\ ret = NoRet
    /\ addedIds = {}
    /\ deletedIds = {}
    /\ live = <<>>
    /\ calls = 0
    /\ conns = 0
    /\ ret_db = NoRet

\* History of what the callers were told.
Put(f, k, v) == [i \in DOMAIN f \cup {k} |-> IF i = k THEN v ELSE f[i]]

Drop(f, k) == [i \in DOMAIN f \ {k} |-> f[i]]

\* ------------------------------------------------------------ connections
\* `with sqlite3.connect(self.db_path) as conn:` opens a connection; the
\* block commits or rolls back on exit and does not close it.  No method
\* calls conn.close(): the connection is closed when the interpreter
\* finalizes the unreferenced object, which is at the return of the method
\* or later, as the interpreter has it.

\* Every method opens a connection, whichever backend is active.
ConnectAlways == conns' \in {conns, conns + 1}

Connect == conns' \in (IF UsesDb THEN {conns, conns + 1} ELSE {conns})

\* The interpreter finalizes a connection left open.
finalize_connection ==
    /\ conns > 0
    /\ conns' = conns - 1
    /\ UNCHANGED <<db_path, lock, notes, next_id, table, clock, pc, frame, ret,
                   addedIds, deletedIds, live, calls, ret_db>>

\* ------------------------------------------------------------ RLock
\* RLock.acquire(): free, or already owned by the caller.
CanAcquire(t) == lock.owner \in {NoThread, t}

Acquired(t) == [owner |-> t, count |-> lock.count + 1]

\* A `with self._lock` block that leaves without giving the lock back.
ReleasedNever == lock

Released ==
    IF lock.count = 1 THEN [owner |-> NoThread, count |-> 0]
                      ELSE [lock EXCEPT !.count = @ - 1]

\* ------------------------------------------------------------ calls
\* A thread enters a method.  add_note and update_note read the clock on
\* their first line, before `with self._lock`.
Enter(t, f) ==
    /\ pc[t] = "idle"
    /\ calls < MaxCalls
    /\ calls' = calls + 1
    /\ clock' = f.now
    /\ frame' = [frame EXCEPT ![t] = f]
    /\ pc' = [pc EXCEPT ![t] = "lock"]
    /\ UNCHANGED <<db_path, lock, notes, next_id, table, ret,
                   addedIds, deletedIds, live, conns, ret_db>>

\* add_note, line 59: now = datetime.utcnow()
add_note_now(t) ==
    \E d \in Drafts, now \in utcnow :
        Enter(t, [op |-> "add", note_id |-> 0, note_create |-> d, now |-> now])

\* update_note, line 116: now = datetime.utcnow()
update_note_now(t) ==
    \E i \in NoteIds, d \in Drafts, now \in utcnow :
        Enter(t, [op |-> "update", note_id |-> i, note_create |-> d, now |-> now])

\* `with self._lock:` in add_note and update_note, after the clock is read.
lock_acquire(t) ==
    /\ pc[t] = "lock"
    /\ CanAcquire(t)
    /\ lock' = Acquired(t)
    /\ pc' = [pc EXCEPT ![t] = "body"]
    /\ UNCHANGED <<db_path, notes, next_id, table, clock, frame, ret,
                   addedIds, deletedIds, live, calls, conns, ret_db>>


\* The method returns r.
Return(t, op, note_id, r) ==
    /\ ret' = [op |-> op, note_id |-> note_id, result |-> r]
    /\ frame' = [frame EXCEPT ![t] = NoFrame]
    /\ pc' = [pc EXCEPT ![t] = "idle"]

InBody(t, op) == pc[t] = "body" /\ frame[t].op = op

\* ------------------------------------------------------------ add_note
\* A counter that stays where it is.
IncrementedNot(n) == n

\* self._next_id += 1
Incremented(n) == n + 1

InsertedRow(d, now, id) ==
    <<id, d.title, d.content, isoformat(now), isoformat(now)>>

\* Lines 61-86, to the end of the `with self._lock` block.
add_note(t) ==
    /\ InBody(t, "add")
    /\ lock' = Released
    /\ LET d == frame[t].note_create
           now == frame[t].now
       IN  IF UsesDb
           THEN LET note_id == NewRowId(table)
                IN  /\ table' = table \cup {InsertedRow(d, now, note_id)}
                    /\ Return(t, "add", 0, SomeNote(Note(note_id, d.title, d.content, now, now)))
                    /\ addedIds' = addedIds \cup {note_id}
                    /\ live' = Put(live, note_id, d)
                    /\ UNCHANGED <<notes, next_id>>
           ELSE LET note == Note(next_id, d.title, d.content, now, now)
                IN  /\ notes' = DictSet(notes, next_id, note)
                    /\ next_id' = Incremented(next_id)
                    /\ Return(t, "add", 0, SomeNote(note))
                    /\ addedIds' = addedIds \cup {note.id}
                    /\ live' = Put(live, note.id, d)
                    /\ UNCHANGED table
    /\ Connect
    /\ UNCHANGED <<db_path, clock, deletedIds, calls, ret_db>>

\* ------------------------------------------------------------ update_note
\* UPDATE notes SET title=?, content=?, updated_at=? WHERE id=?
UpdatedRow(r, d, now) == <<r[1], d.title, d.content, r[4], isoformat(now)>>

\* An UPDATE that inserts the row when no row has the id.
UpdateRowsUpsert(tb, id, d, now) ==
    IF \E r \in tb : r[1] = id
    THEN {IF r[1] = id THEN UpdatedRow(r, d, now) ELSE r : r \in tb}
    ELSE tb \cup {<<id, d.title, d.content, isoformat(now), isoformat(now)>>}

UpdateRows(tb, id, d, now) ==
    {IF r[1] = id THEN UpdatedRow(r, d, now) ELSE r : r \in tb}

\* An update that stamps created_at as well.
UpdatedNoteRestamped(note, d, now) ==
    Note(note.id, d.title, d.content, now, now)

UpdatedNote(note, d, now) ==
    Note(note.id, d.title, d.content, note.created_at, now)

\* Lines 118-143, to the end of the `with self._lock` block.
update_note(t) ==
    /\ InBody(t, "update")
    /\ lock' = Released
    /\ LET note_id == frame[t].note_id
           d == frame[t].note_create
           now == frame[t].now
       IN  IF UsesDb
           THEN LET rowcount == Cardinality(SelectById(table, note_id))
                IN  /\ table' = UpdateRows(table, note_id, d, now)
                    /\ IF rowcount > 0
                       THEN /\ Return(t, "update", note_id, SomeNote(_from_row(
                                   CHOOSE r \in SelectById(table', note_id) : TRUE)))
                            /\ live' = Put(live, note_id, d)
                       ELSE /\ Return(t, "update", note_id, None)
                            /\ UNCHANGED live
                    /\ UNCHANGED notes
           ELSE LET note == DictGet(notes, note_id)
                IN  IF note.kind = "Note"
                    THEN LET updated_note == UpdatedNote(note.note, d, now)
                         IN  /\ notes' = DictSet(notes, note_id, updated_note)
                             /\ Return(t, "update", note_id, SomeNote(updated_note))
                             /\ live' = Put(live, note_id, d)
                             /\ UNCHANGED table
                    ELSE /\ Return(t, "update", note_id, None)
                         /\ UNCHANGED <<notes, table, live>>
    /\ Connect
    /\ UNCHANGED <<db_path, next_id, clock, addedIds, deletedIds, calls, ret_db>>

\* ------------------------------------------------------------ get, list, delete
\* get_note, list_notes and delete_note are one `with self._lock` block
\* each: the call goes through when the lock can be taken, runs the block
\* and gives the lock back.
Locked(t) ==
    /\ pc[t] = "idle"
    /\ calls < MaxCalls
    /\ CanAcquire(t)
    /\ calls' = calls + 1
    /\ UNCHANGED <<lock, pc, frame>>

\* Lines 91-100: what get_note(note_id) returns in this state.
Fetched(note_id) ==
    LET rows == SelectById(table, note_id)
        row == CHOOSE r \in rows : TRUE
    IN  IF UsesDb
        THEN IF rows # {} THEN SomeNote(_from_row(row)) ELSE None
        ELSE DictGet(notes, note_id)

get_note(t) ==
    /\ Locked(t)
    /\ \E note_id \in NoteIds :
        ret' = [op |-> "get", note_id |-> note_id, result |-> Fetched(note_id)]
    /\ Connect
    /\ UNCHANGED <<db_path, notes, next_id, table, clock, addedIds, deletedIds, live, ret_db>>

list_notes(t) ==
    /\ Locked(t)
    /\ LET rows == OrderById(table)
       IN  ret' = [op |-> "list", note_id |-> 0,
                   result |-> IF UsesDb
                              THEN NoteList([i \in DOMAIN rows |-> _from_row(rows[i])])
                              ELSE NoteList(DictValues(notes))]
    /\ Connect
    /\ UNCHANGED <<db_path, notes, next_id, table, clock, addedIds, deletedIds, live, ret_db>>

delete_note(t) ==
    /\ Locked(t)
    /\ \E note_id \in NoteIds :
        IF UsesDb
        THEN LET rowcount == Cardinality(SelectById(table, note_id))
             IN  /\ table' = table \ SelectById(table, note_id)
                 /\ ret' = [op |-> "delete", note_id |-> note_id,
                            result |-> Bool(rowcount > 0)]
                 /\ deletedIds' = IF rowcount > 0 THEN deletedIds \cup {note_id}
                                                  ELSE deletedIds
                 /\ live' = IF rowcount > 0 THEN Drop(live, note_id) ELSE live
                 /\ UNCHANGED notes
        ELSE LET popped == DictGet(notes, note_id)
             IN  /\ notes' = DictPop(notes, note_id)
                 /\ ret' = [op |-> "delete", note_id |-> note_id,
                            result |-> Bool(popped.kind # "None")]
                 /\ deletedIds' = IF popped.kind # "None" THEN deletedIds \cup {note_id}
                                                          ELSE deletedIds
                 /\ live' = IF popped.kind # "None" THEN Drop(live, note_id) ELSE live
                 /\ UNCHANGED table
    /\ Connect
    /\ UNCHANGED <<db_path, next_id, clock, addedIds, ret_db>>

\* ------------------------------------------------------------ system
Next ==
    \/ finalize_connection
    \/ \E t \in Threads :
        \/ add_note_now(t)
        \/ update_note_now(t)
        \/ lock_acquire(t)
        \/ add_note(t)
        \/ get_note(t)
        \/ list_notes(t)
        \/ update_note(t)
        \/ delete_note(t)

Spec == Init /\ [][Next]_vars

\* ------------------------------------------------------------ views
\* The notes the active backend holds, as get_note would return them.
StoredIds == IF UsesDb THEN RowIds(table) ELSE DictKeys(notes)

StoredNote(i) ==
    IF UsesDb THEN _from_row(CHOOSE r \in SelectById(table, i) : TRUE)
              ELSE DictGet(notes, i).note

TypeOK ==
    /\ db_path \in DbPaths
    /\ lock.owner \in Threads \cup {NoThread}
    /\ next_id \in Nat
    /\ calls \in 0..MaxCalls

\* ------------------------------------------------------------ claims
\* No two notes of the active backend are stored under one id.
NoSharedId ==
    IF UsesDb
    THEN \A r1 \in table, r2 \in table : r1[1] = r2[1] => r1 = r2
    ELSE \A i \in DOMAIN notes, j \in DOMAIN notes :
            notes[i].value.id = notes[j].value.id => i = j

\* The id add_note returns in this step has not been returned before.
ReturnsFreshId(t) == add_note(t) => ret'.result.note.id \notin addedIds

\* C1: on one store the ids returned by add_note are pairwise distinct,
\* whichever threads call it, and no two stored notes ever share an id.
C1_IdsPairwiseDistinct ==
    /\ []NoSharedId
    /\ [][\A t \in Threads : ReturnsFreshId(t)]_vars

\* C2: an id is never reused: once add_note has returned id i, no later
\* add_note returns i, also after note i was deleted, on either backend.
C2_IdNeverReused ==
    [][\A t \in Threads :
          add_note(t) => ret'.result.note.id \notin addedIds \cup deletedIds]_vars

\* C3: every stored note has updated_at >= created_at, in every reachable
\* state, whatever the interleaving of add_note and update_note calls.
C3_UpdatedNotBeforeCreated ==
    \A i \in StoredIds :
        AtOrBefore(StoredNote(i).created_at, StoredNote(i).updated_at)

\* C4: a successful update_note sets updated_at to a time at or after the
\* updated_at the note had just before; updated_at never decreases.
C4_UpdatedAtNeverDecreases ==
    [][\A i \in StoredIds \cap StoredIds' :
          AtOrBefore(StoredNote(i).updated_at, StoredNote(i)'.updated_at)]_vars

\* C5: update_note on an existing note returns and stores a note with the
\* same id and created_at as before and the draft's title and content, and
\* changes no other note; created_at of a stored note never changes.
UpdateKeepsIdentity(t) ==
    \A i \in StoredIds :
        update_note(t) /\ frame[t].note_id = i =>
            /\ ret'.result.kind = "Note"
            /\ ret'.result.note.id = i
            /\ ret'.result.note.created_at = StoredNote(i).created_at
            /\ ret'.result.note.title = frame[t].note_create.title
            /\ ret'.result.note.content = frame[t].note_create.content
            /\ StoredIds' = StoredIds
            /\ StoredNote(i)' = ret'.result.note
            /\ \A j \in StoredIds \ {i} : StoredNote(j)' = StoredNote(j)

C5_UpdatePreservesIdentity ==
    [][/\ \A t \in Threads : UpdateKeepsIdentity(t)
       /\ \A i \in StoredIds \cap StoredIds' :
             StoredNote(i)'.created_at = StoredNote(i).created_at]_vars

\* An update succeeded on a store that holds another note too, and the
\* note it returned is no longer as it was created.
C5_Witness ==
    /\ ret.op = "update"
    /\ ret.result.kind = "Note"
    /\ Cardinality(StoredIds) = 2
    /\ ret.result.note.updated_at # ret.result.note.created_at

\* C6: after delete_note(id) returned True, get_note(id) and
\* update_note(id, d) return None and delete_note(id) returns False; a
\* deleted note is never visible again.
C6_DeleteIsTerminal ==
    /\ [](\A i \in deletedIds : Fetched(i).kind = "None")
    /\ [][\A t \in Threads :
          /\ get_note(t) /\ ret'.note_id \in deletedIds => ret'.result.kind = "None"
          /\ update_note(t) /\ frame[t].note_id \in deletedIds =>
                ret'.result.kind = "None"
          /\ delete_note(t) /\ ret'.note_id \in deletedIds =>
                ret'.result.kind = "Bool" /\ ~ret'.result.value]_vars

\* C7: get_note(add_note(d).id) with no call in between returns the note
\* add_note returned: same id, d's title and content, and created_at =
\* updated_at = the time add_note read.
AddReturnsDraft(t) ==
    add_note(t) =>
        /\ ret'.result.kind = "Note"
        /\ ret'.result.note.title = frame[t].note_create.title
        /\ ret'.result.note.content = frame[t].note_create.content
        /\ ret'.result.note.created_at = frame[t].now
        /\ ret'.result.note.updated_at = frame[t].now
        /\ ret'.result.note.id \in StoredIds'

GetAfterAdd(t) ==
    get_note(t) /\ ret.op = "add" /\ ret'.note_id = ret.result.note.id =>
        /\ ret'.result.kind = "Note"
        /\ ret'.result.note = ret.result.note

C7_AddGetRoundTrip ==
    [][\A t \in Threads : AddReturnsDraft(t) /\ GetAfterAdd(t)]_vars

\* The only two calls were an add_note at a time with a microsecond part
\* and then a get_note that found the note in the database.
C7_Witness ==
    /\ UsesDb
    /\ calls = 2
    /\ \A t \in Threads : pc[t] = "idle"
    /\ ret.op = "get"
    /\ ret.result.kind = "Note"
    /\ ret.result.note.created_at.microsecond # 0

\* C8: list_notes returns exactly the notes added and not deleted since,
\* each once, in strictly ascending id order, with their latest title and
\* content, on the dict as on the table.
C8_ListComplete ==
    ret.op = "list" =>
        LET L == ret.result.notes
        IN  /\ {L[k].id : k \in DOMAIN L} = DOMAIN live
            /\ Len(L) = Cardinality(DOMAIN live)
            /\ \A k \in DOMAIN L :
                  /\ L[k].title = live[L[k].id].title
                  /\ L[k].content = live[L[k].id].content
            /\ \A k \in 1..(Len(L) - 1) : L[k].id < L[k + 1].id

\* list_notes returned two notes.
C8_Witness ==
    /\ ret.op = "list"
    /\ Len(ret.result.notes) = 2

\* C9: get_note, update_note and delete_note on an id that is not stored
\* return None, None and False, and leave the notes and next_id as they
\* were.
StoreUnchanged == UNCHANGED <<notes, next_id, table>>

C9_NotFoundIsNoOp ==
    [][\A t \in Threads :
          /\ get_note(t) /\ ret'.note_id \notin StoredIds =>
                ret'.result.kind = "None" /\ StoreUnchanged
          /\ update_note(t) /\ frame[t].note_id \notin StoredIds =>
                ret'.result.kind = "None" /\ StoreUnchanged
          /\ delete_note(t) /\ ret'.note_id \notin StoredIds =>
                ret'.result.kind = "Bool" /\ ~ret'.result.value /\ StoreUnchanged]_vars

\* An update_note found no note with its id in a store that holds one.
C9_Witness ==
    /\ ret.op = "update"
    /\ ret.result.kind = "None"
    /\ StoredIds # {}

\* C10: every step of a method that decides its effect, reading the clock
\* included, runs while the calling thread holds the lock, and at most one
\* thread is inside a method body at any time.
C10_LockHeldThroughout ==
    /\ \A t \in Threads : pc[t] # "idle" => lock.owner = t
    /\ Cardinality({t \in Threads : pc[t] = "body"}) <= 1

\* C11: a note is visible from the return of its add_note to the return
\* of its delete_note: a get_note or list_notes after the add returned and
\* before a delete sees it, one after delete_note(id) returned True does
\* not, and a stored note is whole, with the id it is stored under.
StoredWhole ==
    IF UsesDb
    THEN \A r \in table : Len(r) = 5 /\ _from_row(r).id = r[1]
    ELSE \A k \in DOMAIN notes :
            /\ notes[k].value.id = notes[k].key
            /\ DOMAIN notes[k].value =
                  {"id", "title", "content", "created_at", "updated_at"}

C11_VisibleFromAddToDelete ==
    /\ \A i \in DOMAIN live : Fetched(i).kind = "Note" /\ Fetched(i).note.id = i
    /\ \A i \in deletedIds : Fetched(i).kind = "None"
    /\ ret.op = "list" =>
          /\ \A i \in DOMAIN live :
                \E k \in DOMAIN ret.result.notes : ret.result.notes[k].id = i
          /\ \A k \in DOMAIN ret.result.notes : ret.result.notes[k].id \notin deletedIds
    /\ StoredWhole

\* ------------------------------------------------------------ two stores
\* A memory-backed store (notes, next_id; result in ret) and an
\* SQLite-backed store over an empty table (table; result in ret_db) are
\* given the same calls, one after the other, with the same clock readings.
InitBoth ==
    /\ Init
    /\ db_path = "notes.db"

CallBoth ==
    /\ calls < MaxCalls
    /\ calls' = calls + 1
    /\ UNCHANGED <<db_path, lock, pc, frame, addedIds, deletedIds, live, conns>>

\* What the SQLite-backed get_note returns, lines 92-98.
FetchedRow(note_id) ==
    LET rows == SelectById(table, note_id)
    IN  IF rows # {} THEN SomeNote(_from_row(CHOOSE r \in rows : TRUE)) ELSE None

add_note_both ==
    /\ CallBoth
    /\ \E d \in Drafts, now \in utcnow :
        LET note == Note(next_id, d.title, d.content, now, now)
            note_id == NewRowId(table)
        IN  /\ clock' = now
            /\ notes' = DictSet(notes, next_id, note)
            /\ next_id' = Incremented(next_id)
            /\ ret' = [op |-> "add", note_id |-> 0, result |-> SomeNote(note)]
            /\ table' = table \cup {InsertedRow(d, now, note_id)}
            /\ ret_db' = [op |-> "add", note_id |-> 0,
                          result |-> SomeNote(Note(note_id, d.title, d.content, now, now))]

get_note_both ==
    /\ CallBoth
    /\ \E note_id \in NoteIds :
        /\ ret' = [op |-> "get", note_id |-> note_id, result |-> DictGet(notes, note_id)]
        /\ ret_db' = [op |-> "get", note_id |-> note_id, result |-> FetchedRow(note_id)]
    /\ UNCHANGED <<notes, next_id, table, clock>>

list_notes_both ==
    /\ CallBoth
    /\ LET rows == OrderById(table)
       IN  /\ ret' = [op |-> "list", note_id |-> 0, result |-> NoteList(DictValues(notes))]
           /\ ret_db' = [op |-> "list", note_id |-> 0,
                         result |-> NoteList([i \in DOMAIN rows |-> _from_row(rows[i])])]
    /\ UNCHANGED <<notes, next_id, table, clock>>

update_note_both ==
    /\ CallBoth
    /\ \E note_id \in NoteIds, d \in Drafts, now \in utcnow :
        LET note == DictGet(notes, note_id)
            rowcount == Cardinality(SelectById(table, note_id))
        IN  /\ clock' = now
            /\ IF note.kind = "Note"
               THEN LET updated_note == UpdatedNote(note.note, d, now)
                    IN  /\ notes' = DictSet(notes, note_id, updated_note)
                        /\ ret' = [op |-> "update", note_id |-> note_id,
                                   result |-> SomeNote(updated_note)]
               ELSE /\ ret' = [op |-> "update", note_id |-> note_id, result |-> None]
                    /\ UNCHANGED notes
            /\ table' = UpdateRows(table, note_id, d, now)
            /\ ret_db' = [op |-> "update", note_id |-> note_id,
                          result |-> IF rowcount > 0
                                     THEN SomeNote(_from_row(
                                            CHOOSE r \in SelectById(table', note_id) : TRUE))
                                     ELSE None]
    /\ UNCHANGED next_id

delete_note_both ==
    /\ CallBoth
    /\ \E note_id \in NoteIds :
        /\ notes' = DictPop(notes, note_id)
        /\ ret' = [op |-> "delete", note_id |-> note_id,
                   result |-> Bool(DictGet(notes, note_id).kind # "None")]
        /\ table' = table \ SelectById(table, note_id)
        /\ ret_db' = [op |-> "delete", note_id |-> note_id,
                      result |-> Bool(Cardinality(SelectById(table, note_id)) > 0)]
    /\ UNCHANGED <<next_id, clock>>

NextBoth ==
    \/ add_note_both
    \/ get_note_both
    \/ list_notes_both
    \/ update_note_both
    \/ delete_note_both

SpecBoth == InitBoth /\ [][NextBoth]_vars

\* C12: from a fresh memory-backed store and a fresh SQLite-backed store
\* over an empty table, the same calls with the same clock readings return
\* the same results from both, the ids add_note assigns included.
C12_BackendsEquivalent ==
    /\ ret.op = ret_db.op
    /\ ret.result.kind = ret_db.result.kind
    /\ ret.result = ret_db.result

\* ------------------------------------------------------------ I/O faults
\* A statement inside `with sqlite3.connect(self.db_path) as conn` raises.
\* The connection's __exit__ rolls the transaction back, `with self._lock`
\* releases the lock, and the exception leaves the method.
Raised == [kind |-> "Raised"]

\* A connection whose __exit__ keeps what the failed transaction wrote.
rollbackKeeps(before, dirty) == dirty

rollback(before, dirty) == before

add_note_fault(t) ==
    /\ InBody(t, "add")
    /\ UsesDb
    /\ lock' = Released
    /\ \E dirty \in {table, table \cup {InsertedRow(frame[t].note_create, frame[t].now,
                                                     NewRowId(table))}} :
        table' = rollback(table, dirty)
    /\ Return(t, "add", 0, Raised)
    /\ Connect
    /\ UNCHANGED <<db_path, notes, next_id, clock, addedIds, deletedIds, live, calls, ret_db>>

update_note_fault(t) ==
    /\ InBody(t, "update")
    /\ UsesDb
    /\ lock' = Released
    /\ \E dirty \in {table, UpdateRows(table, frame[t].note_id, frame[t].note_create,
                                       frame[t].now)} :
        table' = rollback(table, dirty)
    /\ Return(t, "update", frame[t].note_id, Raised)
    /\ Connect
    /\ UNCHANGED <<db_path, notes, next_id, clock, addedIds, deletedIds, live, calls, ret_db>>

get_note_fault(t) ==
    /\ Locked(t)
    /\ UsesDb
    /\ \E note_id \in NoteIds :
        ret' = [op |-> "get", note_id |-> note_id, result |-> Raised]
    /\ table' = rollback(table, table)
    /\ Connect
    /\ UNCHANGED <<db_path, notes, next_id, clock, addedIds, deletedIds, live, ret_db>>

list_notes_fault(t) ==
    /\ Locked(t)
    /\ UsesDb
    /\ ret' = [op |-> "list", note_id |-> 0, result |-> Raised]
    /\ table' = rollback(table, table)
    /\ Connect
    /\ UNCHANGED <<db_path, notes, next_id, clock, addedIds, deletedIds, live, ret_db>>

delete_note_fault(t) ==
    /\ Locked(t)
    /\ UsesDb
    /\ \E note_id \in NoteIds :
        /\ ret' = [op |-> "delete", note_id |-> note_id, result |-> Raised]
        /\ \E dirty \in {table, table \ SelectById(table, note_id)} :
            table' = rollback(table, dirty)
    /\ Connect
    /\ UNCHANGED <<db_path, notes, next_id, clock, addedIds, deletedIds, live, ret_db>>

Fault(t) ==
    \/ add_note_fault(t)
    \/ update_note_fault(t)
    \/ get_note_fault(t)
    \/ list_notes_fault(t)
    \/ delete_note_fault(t)

NextFault ==
    \/ Next
    \/ \E t \in Threads : add_note_fault(t)
    \/ \E t \in Threads : update_note_fault(t)
    \/ \E t \in Threads : get_note_fault(t)
    \/ \E t \in Threads : list_notes_fault(t)
    \/ \E t \in Threads : delete_note_fault(t)

SpecFault == Init /\ [][NextFault]_vars

\* C13: when a persistent-backend operation fails with an I/O fault, the
\* caller gets the fault (the call is over, nothing is returned in its
\* place and no further call is made), the lock is free afterwards, and the
\* table is exactly what it was before the operation.
C13_FaultLeavesStoreIntact ==
    [][\A t \in Threads : Fault(t) =>
            /\ ret'.result.kind = "Raised"
            /\ pc'[t] = "idle"
            /\ calls' <= calls + 1
            /\ lock' = [owner |-> NoThread, count |-> 0]
            /\ table' = table
            /\ \A i \in NoteIds : Fetched(i)' = Fetched(i)]_vars

C13_Witness ==
    /\ ret.op = "update"
    /\ ret.result.kind = "Raised"
    /\ table # {}
    /\ lock.owner = NoThread

\* C14: in persistent mode every operation closes the connection it opened
\* before it returns, on the normal path and on every error path: whenever
\* no store operation is in progress, no connection is open.
C14_NoConnectionLeftOpen ==
    (\A t \in Threads : pc[t] = "idle") => conns = 0

\* ------------------------------------------------------------ HTTP layer
\* main.py: each handler calls one method of note_storage and turns what
\* it returns into a response.
HTTP_200_OK == 200
HTTP_201_CREATED == 201
HTTP_204_NO_CONTENT == 204
HTTP_404_NOT_FOUND == 404

\* detail=f"Note with id {note_id} not found."
HTTPException(status_code, note_id) ==
    [status_code |-> status_code,
     detail |-> [text |-> "Note with id {note_id} not found.", note_id |-> note_id]]

Response(status_code, body) == [status_code |-> status_code, body |-> body]

http_list_notes(listed) == Response(HTTP_200_OK, listed)

create_note(created_note) == Response(HTTP_201_CREATED, created_note)

http_get_note(note_id, note) ==
    IF note.kind = "None"
    THEN HTTPException(HTTP_404_NOT_FOUND, note_id)
    ELSE Response(HTTP_200_OK, note)

http_update_note(note_id, updated) ==
    IF updated.kind = "None"
    THEN HTTPException(HTTP_404_NOT_FOUND, note_id)
    ELSE Response(HTTP_200_OK, updated)

\* A DELETE handler that does not look at what the store returned.
http_delete_noteUnchecked(note_id, deleted) ==
    Response(HTTP_204_NO_CONTENT, None)

http_delete_note(note_id, deleted) ==
    IF ~deleted.value
    THEN HTTPException(HTTP_404_NOT_FOUND, note_id)
    ELSE Response(HTTP_204_NO_CONTENT, None)

\* The response to the request whose store call returned r.
Responded(r) ==
    CASE r.op = "list"   -> http_list_notes(r.result)
      [] r.op = "add"    -> create_note(r.result)
      [] r.op = "get"    -> http_get_note(r.note_id, r.result)
      [] r.op = "update" -> http_update_note(r.note_id, r.result)
      [] r.op = "delete" -> http_delete_note(r.note_id, r.result)
      [] OTHER           -> Response(0, None)

\* C15: GET and PUT /notes/{id} answer 404 with a detail naming the id
\* exactly when the store returns absent and 200 with the note otherwise;
\* DELETE answers 404 exactly when the store's delete returns false and 204
\* otherwise; POST /notes answers 201 with the note add returned; a request
\* answered 404 leaves the store unchanged.
C15_StatusFollowsStore ==
    /\ [](LET resp == Responded(ret)
          IN  /\ ret.op \in {"get", "update"} =>
                    IF ret.result.kind = "None"
                    THEN /\ resp.status_code = 404
                         /\ resp.detail.note_id = ret.note_id
                    ELSE /\ resp.status_code = 200
                         /\ resp.body.kind = "Note"
                         /\ resp.body.note = ret.result.note
              /\ ret.op = "delete" =>
                    IF ret.result.value
                    THEN resp.status_code = 204 /\ resp.body.kind = "None"
                    ELSE resp.status_code = 404 /\ resp.detail.note_id = ret.note_id
              /\ ret.op = "add" =>
                    /\ resp.status_code = 201
                    /\ resp.body.kind = "Note"
                    /\ resp.body.note = ret.result.note)
    /\ [][Responded(ret').status_code = 404 => StoreUnchanged]_vars

C15_Witness ==
    /\ ret.op = "delete"
    /\ ~ret.result.value
    /\ Responded(ret).status_code = 404
    /\ StoredIds # {}
    /\ ~UsesDb

\* ------------------------------------------------------------ fairness
\* A thread that is inside a method keeps running: it takes the lock when
\* the lock stays available, and the `with self._lock` block it is in runs
\* to its end, by returning or by raising.
FairSpec ==
    /\ SpecFault
    /\ \A t \in Threads :
        /\ WF_vars(lock_acquire(t))
        /\ WF_vars(add_note(t) \/ add_note_fault(t))
        /\ WF_vars(update_note(t) \/ update_note_fault(t))

\* C16: with finitely many threads issuing finitely many operations and a
\* fair scheduler, every operation a thread has entered returns to its
\* caller, and a held lock is always given back.
C16_EveryCallReturns ==
    /\ \A t \in Threads : (pc[t] # "idle") ~> (pc[t] = "idle")
    /\ (lock.owner # NoThread) ~> (lock.owner = NoThread)

C16_Witness ==
    \E t, u \in Threads :
        /\ pc[t] = "lock"
        /\ pc[u] = "body"
        /\ lock.owner = u
        /\ UsesDb

\* C17: the backend is fixed at construction and only one is ever used.
\* With db_path absent or empty the table is never written and no
\* connection is opened; with a non-empty db_path the in-memory map stays
\* empty and next_id stays 1.
C17_OneBackendActive ==
    /\ [](UsesDb => notes = <<>> /\ next_id = 1)
    /\ [](~UsesDb => table = {} /\ conns = 0)
    /\ [][db_path' = db_path]_vars

C17_Witness ==
    /\ ~UsesDb
    /\ Len(notes) = 2
    /\ next_id = 3
    /\ ret.op = "get"

\* C18: on the memory backend next_id starts at 1, every completed add_note
\* raises it by exactly one and returns the value it had, and no other step
\* changes it, so next_id is always one more than the number of completed
\* adds; every key of the map is below next_id and the note under key k
\* has id k.
C18_CounterCountsAdds ==
    /\ [](~UsesDb =>
            /\ next_id >= 1
            /\ \A k \in DOMAIN notes :
                  /\ notes[k].key < next_id
                  /\ notes[k].value.id = notes[k].key)
    /\ [][~UsesDb =>
            /\ \A t \in Threads : add_note(t) =>
                  /\ next_id' = next_id + 1
                  /\ ret'.result.note.id = next_id
            /\ (\A t \in Threads : ~add_note(t)) => next_id' = next_id]_vars
    /\ (~UsesDb => next_id = 1)

C18_Witness ==
    /\ ~UsesDb
    /\ next_id = 3
    /\ deletedIds # {}
    /\ ret.op = "add"
    /\ ret.result.note.id = 2

\* C19: get_note and list_notes change nothing that is stored, on either
\* backend: not a note, not the set of stored ids, not the id counter; and
\* delete_note leaves every note that remains exactly as it was, its
\* timestamps included.
C19_ReadsChangeNothing ==
    [][\A t \in Threads :
          /\ get_note(t) \/ list_notes(t) => StoreUnchanged
          /\ delete_note(t) =>
                /\ StoredIds' \subseteq StoredIds
                /\ \A i \in StoredIds' : StoredNote(i)' = StoredNote(i)
                /\ next_id' = next_id]_vars

C19_Witness ==
    /\ ret.op = "delete"
    /\ ret.result.value
    /\ StoredIds # {}

\* ------------------------------------------------------------ a new instance
\* The process ends and a new NoteStorage is constructed with the same
\* db_path.  The database file outlives the instance; the object's fields
\* do not.

\* An _init_db that drops the table before creating it.
_init_dbDropping(tb) == {}

\* CREATE TABLE IF NOT EXISTS notes: an existing table keeps its rows.
_init_db(tb) == tb

__init__ ==
    /\ \A t \in Threads : pc[t] = "idle"
    /\ calls < MaxCalls
    /\ calls' = calls + 1
    /\ lock' = [owner |-> NoThread, count |-> 0]
    /\ notes' = <<>>
    /\ next_id' = 1
    /\ table' = IF UsesDb THEN _init_db(table) ELSE table
    /\ conns' \in (IF UsesDb THEN {0, 1} ELSE {0})
    /\ addedIds' = {}
    /\ deletedIds' = {}
    /\ live' = <<>>
    /\ ret' = NoRet
    /\ UNCHANGED <<db_path, clock, pc, frame, ret_db>>

NextRestart ==
    \/ Next
    \/ __init__

SpecRestart == Init /\ [][NextRestart]_vars

\* What list_notes returns in this state, lines 105-112.
Listed ==
    LET rows == OrderById(table)
    IN  IF UsesDb THEN NoteList([i \in DOMAIN rows |-> _from_row(rows[i])])
                  ELSE NoteList(DictValues(notes))

\* C20: a new instance on a db_path that already holds notes returns from
\* get_note and list_notes exactly what the instance before it returned
\* (the table is created only if absent); a new memory-backed instance
\* starts with no notes and next_id = 1.
C20_ConstructionKeepsTheTable ==
    [][__init__ =>
          IF UsesDb
          THEN /\ table' = table
               /\ Listed' = Listed
               /\ \A i \in RowIds(table) \cup NoteIds :
                     /\ Fetched(i)'.kind = Fetched(i).kind
                     /\ Fetched(i)' = Fetched(i)
          ELSE /\ notes' = <<>>
               /\ next_id' = 1
               /\ Listed'.notes = <<>>
               /\ \A i \in DictKeys(notes) \cup NoteIds : Fetched(i)'.kind = "None"]_vars

C20_Witness ==
    /\ UsesDb
    /\ table # {}
    /\ addedIds = {}
    /\ ret.op = "list"
    /\ Len(ret.result.notes) = Cardinality(table)

====
